---- MODULE Spec2Model ----
(***************************************************************************)
(* Cache-aside CEP lookup of goCep-k8s: internal/cep/service.go            *)
(* (Service.Get, loadFromCache, fetchFromViaCEP, saveToCache,              *)
(* normalizeCEP, formatCEP) and the lookup endpoint of cmd/api/main.go     *)
(* (cepHandler).  Strings the code inspects character by                   *)
(* character (the raw CEP, the cep field) are sequences of one-character   *)
(* strings.  Each Get runs as a process whose steps are the I/O calls of   *)
(* the code, so that concurrent calls interleave at the store and the      *)
(* provider exactly where goroutines can.                                  *)
(***************************************************************************)
EXTENDS Integers, Sequences, FiniteSets, TLC

\* ------------------------------------------------------------------ bounds
MaxTime == 3            \* the injected clock runs over 0..MaxTime
MaxTimeConc == 2        \* and over 0..MaxTimeConc while two goroutines run

CepLen == 8             \* service.go:187  len(onlyDigits) != 8
HyphenAt == 5           \* service.go:199  value[:5] + "-" + value[5:]
StatusOK == 200
StatusNotFound == 404   \* service.go:155  http.StatusNotFound
StatusErrorFloor == 400 \* service.go:158  resp.StatusCode >= 400
StatusBadRequest == 400             \* main.go:148  http.StatusBadRequest
StatusInternalServerError == 500    \* main.go:153  http.StatusInternalServerError

Procs == {"g1", "g2"}   \* goroutines calling Service.Get

ErrorStatuses == {StatusErrorFloor, 500}  \* error statuses of the provider other than 404

Digits == {"0", "1", "2", "3", "4", "5", "6", "7", "8", "9"}

\* raw CEP values handed to Get (the ones of the tests, and malformed ones)
RawCodes ==
    { <<"1","2","3","4","5","-","6","7","8">>,
      <<"1","2","3","4","5","6","7","8">>,
      <<"7","6","5","4","3","-","2","1","0">>,
      <<"1","2","-","3","4","5">>,
      <<"1","2","3","4","5","6","7","8","9">>,
      <<"a","b">> }

TTLs == {-1, 0, 1}      \* cacheTTL values; <= 0 disables expiration

\* the raw codes two concurrent requests are given: two spellings of one key
\* and a malformed one
ConcCodes ==
    { <<"1","2","3","4","5","-","6","7","8">>,
      <<"1","2","3","4","5","6","7","8">>,
      <<"1","2","-","3","4","5">> }

\* ------------------------------------------------------- pure functions
\* strings.Map keeping only '0'..'9'
OnlyDigits(value) == SelectSeq(value, LAMBDA c : c \in Digits)

\* mutation: on success the value is returned as it came, separators included
normalizeCEP_ReturnsRaw(value) ==
    LET onlyDigits == OnlyDigits(value)
    IN  IF Len(onlyDigits) # CepLen
        THEN [digits |-> <<>>, err |-> "ErrInvalidCEP"]
        ELSE [digits |-> value, err |-> "nil"]

\* mutation: only too few digits are rejected
normalizeCEP_TooShortOnly(value) ==
    LET onlyDigits == OnlyDigits(value)
    IN  IF Len(onlyDigits) < CepLen
        THEN [digits |-> <<>>, err |-> "ErrInvalidCEP"]
        ELSE [digits |-> onlyDigits, err |-> "nil"]

\* normalizeCEP: (digits, err)
normalizeCEP(value) ==
    LET onlyDigits == OnlyDigits(value)
    IN  IF Len(onlyDigits) # CepLen
        THEN [digits |-> <<>>, err |-> "ErrInvalidCEP"]
        ELSE [digits |-> onlyDigits, err |-> "nil"]

\* mutation: the hyphen is left out
formatCEP_NoHyphen(value) == value

\* formatCEP
formatCEP(value) ==
    IF Len(value) # CepLen
    THEN value
    ELSE SubSeq(value, 1, HyphenAt) \o <<"-">> \o SubSeq(value, HyphenAt + 1, Len(value))

\* the 8-digit keys the raw codes normalize to
Keys == { OnlyDigits(r) : r \in { x \in RawCodes : Len(OnlyDigits(x)) = CepLen } }

\* ------------------------------------------------------------ Response
\* type Response: the cep field, one descriptive field, and the erro flag
NoResponse == [Cep |-> <<>>, Logradouro |-> "", Erro |-> FALSE, nil |-> TRUE]
MkResponse(cep, logradouro, erro) ==
    [Cep |-> cep, Logradouro |-> logradouro, Erro |-> erro, nil |-> FALSE]

\* A JSON document: its top-level shape, and for an object the members the
\* Response type reads.  erro is "absent", "true" or "false".
MkJSON(shape, cep, logradouro, erro) ==
    [shape |-> shape, cep |-> cep, logradouro |-> logradouro, erro |-> erro]
NotAnObject == MkJSON("array", <<>>, "", "absent")
NoJSON == MkJSON("none", <<>>, "", "absent")

\* mutation: logradouro is not exported to JSON
Marshal_DropsLogradouro(data) ==
    MkJSON("object", data.Cep, "", IF data.Erro THEN "true" ELSE "absent")

\* json.Marshal(*Response): erro carries omitempty, so false is not written
Marshal(data) ==
    MkJSON("object", data.Cep, data.Logradouro, IF data.Erro THEN "true" ELSE "absent")

\* json.Unmarshal / Decoder.Decode into Response: (resp, err)
Unmarshal(payload) ==
    IF payload.shape # "object"
    THEN [resp |-> NoResponse, err |-> "json"]
    ELSE [resp |-> MkResponse(payload.cep, payload.logradouro, payload.erro = "true"),
          err |-> "nil"]

\* ---------------------------------------------------------------- errors
\* An error value: which error it is, the error it wraps (errors.Is looks
\* through the chain), and the status code a status error carries.
MkErr(kind, cause, status) == [kind |-> kind, cause |-> cause, status |-> status]
NilErr == MkErr("nil", "none", 0)
ErrInvalidCEP == MkErr("ErrInvalidCEP", "none", 0)      \* service.go:18
ErrNotFound == MkErr("ErrNotFound", "none", 0)          \* service.go:21
\* mutation: the cause is formatted with %v, so the chain is cut
QueryCacheErr_Opaque(cause) == MkErr("queryCache", "none", 0)
\* fmt.Errorf("query cache: %w", err)
QueryCacheErr(cause) == MkErr("queryCache", cause, 0)
\* fmt.Errorf("viacep returned status %d", resp.StatusCode)
StatusErr(status) == MkErr("status", "none", status)
\* the error of client.Do or of reading the body, returned as it is
TransportErr(cause) == MkErr("transport", cause, 0)
DecodeErr == MkErr("decode", "json", 0)
\* errors.Is(err, target) for a sentinel target: err is the target or wraps it
ErrorsIs(err, target) == err = target \/ err.cause = target.kind
\* errors.Is(err, context.Canceled) || errors.Is(err, context.DeadlineExceeded)
IsContextErr(err) == err.cause = "context"

\* ----------------------------------------------------------- the store
\* table ceps: rows (cep, payload, updated_at)
MkRow(cep, payload, updatedAt) == [cep |-> cep, payload |-> payload, updated_at |-> updatedAt]
\* SELECT payload, updated_at FROM ceps WHERE cep = $1
SelectRows(table, cep) == { row \in table : row.cep = cep }
\* mutation: a plain INSERT on a table without the primary key
Upsert_PlainInsert(table, cep, payload, updatedAt) ==
    table \cup { MkRow(cep, payload, updatedAt) }
\* mutation: ON CONFLICT (cep) DO NOTHING
Upsert_DoNothing(table, cep, payload, updatedAt) ==
    IF \E row \in table : row.cep = cep THEN table
    ELSE table \cup { MkRow(cep, payload, updatedAt) }
\* INSERT ... ON CONFLICT (cep) DO UPDATE SET payload, updated_at
Upsert(table, cep, payload, updatedAt) ==
    { row \in table : row.cep # cep } \cup { MkRow(cep, payload, updatedAt) }

\* ------------------------------------------------------- the provider
MkHTTP(err, status, body) == [err |-> err, status |-> status, body |-> body]
\* what client.Do can answer for a cep
ProviderResponses(cep) ==
    { MkHTTP("nil", status, MkJSON("object", formatCEP(cep), "Rua A", "absent")) :
        status \in ErrorStatuses } \cup
    { MkHTTP("net", 0, NotAnObject),
      MkHTTP("nil", StatusNotFound, NotAnObject),
      MkHTTP("nil", StatusOK, MkJSON("object", <<>>, "", "true")),
      MkHTTP("nil", StatusOK, MkJSON("object", cep, "Rua A", "absent")),
      MkHTTP("nil", StatusOK, MkJSON("object", <<>>, "Rua B", "false")),
      MkHTTP("nil", StatusOK, NotAnObject) }

\* ---------------------------------------------------------------- state
VARIABLES
    store,      \* the rows of table ceps
    clock,      \* what s.now() returns
    cacheTTL,   \* Service.cacheTTL
    pc,         \* where each Get is: idle, load, fetch, save, exec, done (off: no such goroutine);
                \* exec: the upsert is issued and not yet answered
    rawCEP,     \* Get's argument
    cepDigits,  \* Get's cepDigits
    ctx,        \* the step during which the call's context was cancelled, or "live"
    fresh,      \* Get's fresh
    answer,     \* what client.Do answered this call
    result,     \* what Get returned: [resp, err]
    scan,       \* what row.Scan gave this call
    exec,       \* the ExecContext this call issued
    reads,      \* store reads of this call
    calls,      \* client.Do calls of this call
    writes,     \* store upserts of this call
    raced,      \* this call and another one for its key both read, and missed, before either wrote
    lastExec,   \* per key, the payload of the upsert applied last
    lastFresh,  \* per key, the record returned by the Get whose upsert was applied last
    written     \* the statuses cepHandler gave to w.WriteHeader for this request, in order

vars == <<store, clock, cacheTTL, pc, rawCEP, cepDigits, ctx, fresh, answer, result,
          scan, exec, reads, calls, writes, raced, lastExec, lastFresh,
          written>>

\* row.Scan's outcome: none yet, err, norows or row; the scanned columns; and
\* the clock when it was read
MkScan(status, err, payload, updatedAt, at) ==
    [status |-> status, err |-> err, payload |-> payload, updated_at |-> updatedAt, at |-> at]
NoScan == MkScan("none", "nil", NotAnObject, 0, 0)
\* an ExecContext: its arguments, the clock when it was issued, whether it took effect
NoExec == [called |-> FALSE, cep |-> <<>>, payload |-> NotAnObject, updated_at |-> 0,
           at |-> 0, applied |-> FALSE]
MkExec(cep, payload, updatedAt, at, applied) ==
    [called |-> TRUE, cep |-> cep, payload |-> payload, updated_at |-> updatedAt,
     at |-> at, applied |-> applied]
NoHTTP == MkHTTP("none", 0, NotAnObject)
NoResult == [resp |-> NoResponse, err |-> NilErr]
MkResult(resp, err) == [resp |-> resp, err |-> err]

\* contents the table can have when the service starts
InitStores ==
    { {},
      { MkRow(k, MkJSON("object", formatCEP(k), "Rua Teste", "absent"), 0) : k \in Keys },
      { MkRow(k, NotAnObject, 0) : k \in Keys } }

InitCalls ==
    /\ rawCEP = [p \in Procs |-> <<>>]
    /\ cepDigits = [p \in Procs |-> <<>>]
    /\ ctx = [p \in Procs |-> "live"]
    /\ fresh = [p \in Procs |-> NoResponse]
    /\ answer = [p \in Procs |-> NoHTTP]
    /\ result = [p \in Procs |-> NoResult]
    /\ scan = [p \in Procs |-> NoScan]
    /\ exec = [p \in Procs |-> NoExec]
    /\ reads = [p \in Procs |-> 0]
    /\ calls = [p \in Procs |-> 0]
    /\ writes = [p \in Procs |-> 0]
    /\ raced = [p \in Procs |-> FALSE]
    /\ lastExec = [k \in Keys |-> NoJSON]
    /\ lastFresh = [k \in Keys |-> NoResponse]
    /\ written = [p \in Procs |-> <<>>]

\* one goroutine serving requests one after the other
Init ==
    /\ store \in InitStores
    /\ clock = 0
    /\ cacheTTL \in TTLs
    /\ pc = [p \in Procs |-> IF p = "g1" THEN "idle" ELSE "off"]
    /\ InitCalls

\* two goroutines serving requests concurrently, expiration enabled
InitConc ==
    /\ store \in InitStores
    /\ clock = 0
    /\ cacheTTL = 1
    /\ pc = [p \in Procs |-> "idle"]
    /\ InitCalls

\* ------------------------------------------------------------- Get steps
\* mutation: the return of line 155 is missing, the error branch falls through
cepHandler_NoReturn(res) ==
    IF res.err # NilErr
    THEN (IF ErrorsIs(res.err, ErrInvalidCEP) THEN <<StatusBadRequest>>
          ELSE IF ErrorsIs(res.err, ErrNotFound) THEN <<StatusNotFound>>
          ELSE <<StatusInternalServerError>>) \o <<StatusOK>>
    ELSE <<StatusOK>>

\* cepHandler, main.go lines 145-158, on what Get returned: the statuses its
\* writeJSON calls hand to w.WriteHeader, in order
cepHandler(res) ==
    IF res.err # NilErr
    THEN IF ErrorsIs(res.err, ErrInvalidCEP) THEN <<StatusBadRequest>>
         ELSE IF ErrorsIs(res.err, ErrNotFound) THEN <<StatusNotFound>>
         ELSE <<StatusInternalServerError>>
    ELSE <<StatusOK>>

\* cepHandler, main.go lines 144-158, in a step of Get: when the step makes
\* Get return, the handler goes on and writes its answer
Respond(p) ==
    written' = [written EXCEPT ![p] =
                   IF pc'[p] = "done" THEN @ \o cepHandler(result'[p]) ELSE @]

\* Get, lines 71-75: normalize, reject with ErrInvalidCEP
GetBegin(p, value) ==
    /\ pc[p] = "idle"
    /\ rawCEP' = [rawCEP EXCEPT ![p] = value]
    /\ LET n == normalizeCEP(value)
       IN  IF n.err # "nil"
           THEN /\ result' = [result EXCEPT ![p] = MkResult(NoResponse, ErrInvalidCEP)]
                /\ pc' = [pc EXCEPT ![p] = "done"]
                /\ UNCHANGED cepDigits
           ELSE /\ cepDigits' = [cepDigits EXCEPT ![p] = n.digits]
                /\ pc' = [pc EXCEPT ![p] = "load"]
                /\ UNCHANGED result
    /\ Respond(p)
    /\ UNCHANGED <<store, clock, cacheTTL, ctx, fresh, answer, scan, exec, reads, calls,
                   writes, raced, lastExec, lastFresh>>

\* the caller's deadline or cancellation fires while the call is in an I/O step
Cancel(p) ==
    /\ pc[p] \in {"load", "fetch", "save", "exec"}
    /\ ctx[p] = "live"
    /\ ctx' = [ctx EXCEPT ![p] = IF pc[p] = "exec" THEN "save" ELSE pc[p]]
    /\ UNCHANGED <<store, clock, cacheTTL, pc, rawCEP, cepDigits, fresh, answer, result,
                   scan, exec, reads, calls, writes, raced, lastExec, lastFresh, written>>

\* mutation: an entry of age exactly TTL is already stale
Expired_AtTTL(ttl, now, updatedAt) == ttl > 0 /\ now - updatedAt >= ttl

\* mutation: a TTL of zero expires entries instead of disabling expiration
Expired_ZeroTTL(ttl, now, updatedAt) == ttl >= 0 /\ now - updatedAt > ttl

\* the expiry test of loadFromCache, line 114
Expired(ttl, now, updatedAt) == ttl > 0 /\ now - updatedAt > ttl

\* mutation: a payload that does not unmarshal is taken for a miss
loadFromCache_BadPayloadIsMiss(scanned, ttl, now) ==
    IF scanned.status = "norows" THEN [resp |-> NoResponse, err |-> "nil"]
    ELSE IF scanned.status = "err" THEN [resp |-> NoResponse, err |-> scanned.err]
    ELSE IF Expired(ttl, now, scanned.updated_at) THEN [resp |-> NoResponse, err |-> "nil"]
    ELSE [resp |-> Unmarshal(scanned.payload).resp, err |-> "nil"]

\* loadFromCache, lines 107-122, on what row.Scan gave: (cached, err);
\* a nil cached with a nil err is a miss
loadFromCache(scanned, ttl, now) ==
    IF scanned.status = "norows" THEN [resp |-> NoResponse, err |-> "nil"]
    ELSE IF scanned.status = "err" THEN [resp |-> NoResponse, err |-> scanned.err]
    ELSE IF Expired(ttl, now, scanned.updated_at) THEN [resp |-> NoResponse, err |-> "nil"]
    ELSE Unmarshal(scanned.payload)

\* mutation: a cached record is not returned, the call goes on to the provider
AfterLoad_IgnoresHit(cached) ==
    IF cached.err # "nil" THEN "fail" ELSE "miss"

\* mutation: a failed store read is taken for a miss
AfterLoad_MasksError(cached) ==
    IF cached.err = "nil" /\ ~cached.resp.nil THEN "hit" ELSE "miss"

\* Get, lines 77-81: what follows loadFromCache
AfterLoad(cached) ==
    IF cached.err # "nil" THEN "fail"
    ELSE IF ~cached.resp.nil THEN "hit"
    ELSE "miss"

\* mutation: the read refreshes updated_at of the row it returns
QueryEffect_Touch(table, cep, now) ==
    { IF row.cep = cep THEN MkRow(row.cep, row.payload, now) ELSE row : row \in table }

\* the statement of line 101 is a SELECT: the table after it is the table before
QueryEffect(table, cep, now) == table

\* QueryRowContext and row.Scan, lines 102-107
Scan(table, cep, cancelled, dbFails, now) ==
    LET rows == SelectRows(table, cep)
    IN  IF cancelled THEN { MkScan("err", "context", NotAnObject, 0, now) }
        ELSE IF dbFails THEN { MkScan("err", "db", NotAnObject, 0, now) }
        ELSE IF rows = {} THEN { MkScan("norows", "ErrNoRows", NotAnObject, 0, now) }
        ELSE { MkScan("row", "nil", row.payload, row.updated_at, now) : row \in rows }

\* the store read of Get: loadFromCache and lines 77-81
LoadFromCache(p, dbFails) ==
    /\ pc[p] = "load"
    /\ reads' = [reads EXCEPT ![p] = @ + 1]
    /\ \E scanned \in Scan(store, cepDigits[p], ctx[p] # "live", dbFails, clock) :
         LET cached == loadFromCache(scanned, cacheTTL, clock)
             after == AfterLoad(cached)
         IN  /\ scan' = [scan EXCEPT ![p] = scanned]
             /\ IF after = "fail"
                THEN /\ result' = [result EXCEPT ![p] =
                                      MkResult(NoResponse, QueryCacheErr(cached.err))]
                     /\ pc' = [pc EXCEPT ![p] = "done"]
                ELSE IF after = "hit"
                THEN /\ result' = [result EXCEPT ![p] = MkResult(cached.resp, NilErr)]
                     /\ pc' = [pc EXCEPT ![p] = "done"]
                ELSE /\ pc' = [pc EXCEPT ![p] = "fetch"]
                     /\ UNCHANGED result
    /\ store' = QueryEffect(store, cepDigits[p], clock)
    /\ Respond(p)
    /\ UNCHANGED <<clock, cacheTTL, rawCEP, cepDigits, ctx, fresh, answer, exec,
                   calls, writes, raced, lastExec, lastFresh>>

\* mutation: the error of Decode is dropped, the zero Response goes on
fetchFromViaCEP_IgnoresDecodeErr(cep, http) ==
    IF http.err # "nil" THEN MkResult(NoResponse, TransportErr(http.err))
    ELSE IF http.status = StatusNotFound THEN MkResult(NoResponse, ErrNotFound)
    ELSE IF http.status >= StatusErrorFloor THEN MkResult(NoResponse, StatusErr(http.status))
    ELSE LET d == Unmarshal(http.body)
         IN  IF d.err # "nil" THEN MkResult(MkResponse(formatCEP(cep), "", FALSE), NilErr)
             ELSE IF d.resp.Erro THEN MkResult(NoResponse, ErrNotFound)
             ELSE IF d.resp.Cep = <<>>
                  THEN MkResult([d.resp EXCEPT !.Cep = formatCEP(cep)], NilErr)
                  ELSE MkResult(d.resp, NilErr)

\* mutation: the body is decoded before the status is looked at, and a body
\* that is a record wins over an error status
fetchFromViaCEP_BodyFirst(cep, http) ==
    IF http.err # "nil" THEN MkResult(NoResponse, TransportErr(http.err))
    ELSE LET d == Unmarshal(http.body)
         IN  IF d.err = "nil" /\ ~d.resp.Erro
             THEN IF d.resp.Cep = <<>>
                  THEN MkResult([d.resp EXCEPT !.Cep = formatCEP(cep)], NilErr)
                  ELSE MkResult(d.resp, NilErr)
             ELSE IF http.status = StatusNotFound THEN MkResult(NoResponse, ErrNotFound)
             ELSE IF http.status >= StatusErrorFloor
                  THEN MkResult(NoResponse, StatusErr(http.status))
             ELSE IF d.err # "nil" THEN MkResult(NoResponse, DecodeErr)
             ELSE MkResult(NoResponse, ErrNotFound)

\* mutation: an empty cep field is left empty
fetchFromViaCEP_KeepsEmptyCep(cep, http) ==
    IF http.err # "nil" THEN MkResult(NoResponse, TransportErr(http.err))
    ELSE IF http.status = StatusNotFound THEN MkResult(NoResponse, ErrNotFound)
    ELSE IF http.status >= StatusErrorFloor THEN MkResult(NoResponse, StatusErr(http.status))
    ELSE LET d == Unmarshal(http.body)
         IN  IF d.err # "nil" THEN MkResult(NoResponse, DecodeErr)
             ELSE IF d.resp.Erro THEN MkResult(NoResponse, ErrNotFound)
             ELSE MkResult(d.resp, NilErr)

\* mutation: the erro member of the body is not looked at
fetchFromViaCEP_IgnoresErro(cep, http) ==
    IF http.err # "nil" THEN MkResult(NoResponse, TransportErr(http.err))
    ELSE IF http.status = StatusNotFound THEN MkResult(NoResponse, ErrNotFound)
    ELSE IF http.status >= StatusErrorFloor THEN MkResult(NoResponse, StatusErr(http.status))
    ELSE LET d == Unmarshal(http.body)
         IN  IF d.err # "nil" THEN MkResult(NoResponse, DecodeErr)
             ELSE IF d.resp.Cep = <<>>
                  THEN MkResult([d.resp EXCEPT !.Cep = formatCEP(cep)], NilErr)
                  ELSE MkResult(d.resp, NilErr)

\* fetchFromViaCEP, lines 149-175, on the answer of client.Do: (body, err)
fetchFromViaCEP(cep, http) ==
    IF http.err # "nil" THEN MkResult(NoResponse, TransportErr(http.err))
    ELSE IF http.status = StatusNotFound THEN MkResult(NoResponse, ErrNotFound)
    ELSE IF http.status >= StatusErrorFloor THEN MkResult(NoResponse, StatusErr(http.status))
    ELSE LET d == Unmarshal(http.body)
         IN  IF d.err # "nil" THEN MkResult(NoResponse, DecodeErr)
             ELSE IF d.resp.Erro THEN MkResult(NoResponse, ErrNotFound)
             ELSE IF d.resp.Cep = <<>>
                  THEN MkResult([d.resp EXCEPT !.Cep = formatCEP(cep)], NilErr)
                  ELSE MkResult(d.resp, NilErr)

\* the provider call of Get: client.Do, fetchFromViaCEP and lines 83-86
FetchFromViaCEP(p, http) ==
    /\ pc[p] = "fetch"
    /\ calls' = [calls EXCEPT ![p] = @ + 1]
    /\ LET got == IF ctx[p] # "live" THEN MkHTTP("context", 0, NotAnObject) ELSE http
           r == fetchFromViaCEP(cepDigits[p], got)
       IN  /\ answer' = [answer EXCEPT ![p] = got]
           /\ IF r.err # NilErr
              THEN /\ result' = [result EXCEPT ![p] = r]
                   /\ pc' = [pc EXCEPT ![p] = "done"]
                   /\ UNCHANGED fresh
              ELSE /\ fresh' = [fresh EXCEPT ![p] = r.resp]
                   /\ pc' = [pc EXCEPT ![p] = "save"]
                   /\ UNCHANGED result
    /\ Respond(p)
    /\ UNCHANGED <<store, clock, cacheTTL, rawCEP, cepDigits, ctx, scan, exec,
                   reads, writes, raced, lastExec, lastFresh>>

\* mutation: the row is keyed by the record's own (hyphenated) cep field
saveToCacheArgs_RecordKey(cep, data, now) ==
    [cep |-> data.Cep, payload |-> Marshal(data), updated_at |-> now]

\* saveToCache, lines 126-138: the arguments of ExecContext
saveToCacheArgs(cep, data, now) == [cep |-> cep, payload |-> Marshal(data), updated_at |-> now]

\* mutation: the error of saveToCache is returned to the caller
AfterSave_Propagates(data, err) ==
    IF err # "nil" THEN MkResult(NoResponse, MkErr("saveCache", err, 0))
    ELSE MkResult(data, NilErr)

\* Get, lines 88-92: what Get returns once saveToCache gave err
AfterSave(data, err) == MkResult(data, NilErr)

\* saveToCache up to the call of ExecContext, lines 126-138: the payload is
\* marshalled and s.now() is read, and the statement is on its way to the store
SaveToCache(p) ==
    /\ pc[p] = "save"
    /\ writes' = [writes EXCEPT ![p] = @ + 1]
    /\ LET args == saveToCacheArgs(cepDigits[p], fresh[p], clock)
       IN  exec' = [exec EXCEPT ![p] =
                       MkExec(args.cep, args.payload, args.updated_at, clock, FALSE)]
    /\ pc' = [pc EXCEPT ![p] = "exec"]
    /\ UNCHANGED <<store, clock, cacheTTL, rawCEP, cepDigits, ctx, fresh, answer, result,
                   scan, reads, calls, raced, lastExec, lastFresh, written>>

\* ExecContext returns, line 138, and Get's lines 88-92: the store has applied
\* the statement, or it failed
ExecContext(p, dbFails) ==
    /\ pc[p] = "exec"
    /\ LET args == exec[p]
           err == IF ctx[p] # "live" THEN "context"
                  ELSE IF dbFails THEN "db" ELSE "nil"
       IN  /\ exec' = [exec EXCEPT ![p].applied = (err = "nil")]
           /\ IF err = "nil"
              THEN /\ store' = Upsert(store, args.cep, args.payload, args.updated_at)
                   /\ lastExec' = [k \in Keys |-> IF k = args.cep THEN args.payload
                                                  ELSE lastExec[k]]
                   /\ lastFresh' = [k \in Keys |-> IF k = args.cep THEN fresh[p]
                                                   ELSE lastFresh[k]]
              ELSE UNCHANGED <<store, lastExec, lastFresh>>
           /\ result' = [result EXCEPT ![p] = AfterSave(fresh[p], err)]
    /\ LET pending == { o \in Procs \ {p} : /\ cepDigits[o] = cepDigits[p]
                                              /\ pc[o] \in {"fetch", "save", "exec"} }
       IN  raced' = [q \in Procs |->
                        IF pending # {} /\ q \in pending \cup {p} THEN TRUE ELSE raced[q]]
    /\ pc' = [pc EXCEPT ![p] = "done"]
    /\ Respond(p)
    /\ UNCHANGED <<clock, cacheTTL, rawCEP, cepDigits, ctx, fresh, answer, scan, reads,
                   calls, writes>>

\* cepHandler has returned; the goroutine is free for the next request
Return(p) ==
    /\ pc[p] = "done"
    /\ pc' = [pc EXCEPT ![p] = "idle"]
    /\ rawCEP' = [rawCEP EXCEPT ![p] = <<>>]
    /\ cepDigits' = [cepDigits EXCEPT ![p] = <<>>]
    /\ ctx' = [ctx EXCEPT ![p] = "live"]
    /\ fresh' = [fresh EXCEPT ![p] = NoResponse]
    /\ answer' = [answer EXCEPT ![p] = NoHTTP]
    /\ result' = [result EXCEPT ![p] = NoResult]
    /\ scan' = [scan EXCEPT ![p] = NoScan]
    /\ exec' = [exec EXCEPT ![p] = NoExec]
    /\ reads' = [reads EXCEPT ![p] = 0]
    /\ calls' = [calls EXCEPT ![p] = 0]
    /\ writes' = [writes EXCEPT ![p] = 0]
    /\ raced' = [raced EXCEPT ![p] = FALSE]
    /\ written' = [written EXCEPT ![p] = <<>>]
    /\ UNCHANGED <<store, clock, cacheTTL, lastExec, lastFresh>>

\* time passes
Tick(max) ==
    /\ clock < max
    /\ clock' = clock + 1
    /\ UNCHANGED <<store, cacheTTL, pc, rawCEP, cepDigits, ctx, fresh, answer, result,
                   scan, exec, reads, calls, writes, raced, lastExec, lastFresh, written>>

Next ==
    \/ \E p \in Procs, value \in RawCodes : GetBegin(p, value)
    \/ \E p \in Procs : Cancel(p)
    \/ \E p \in Procs, dbFails \in BOOLEAN : LoadFromCache(p, dbFails)
    \/ \E p \in Procs : \E http \in ProviderResponses(cepDigits[p]) : FetchFromViaCEP(p, http)
    \/ \E p \in Procs : SaveToCache(p)
    \/ \E p \in Procs, dbFails \in BOOLEAN : ExecContext(p, dbFails)
    \/ \E p \in Procs : Return(p)
    \/ Tick(MaxTime)

Spec == Init /\ [][Next]_vars

NextConc ==
    \/ \E p \in Procs, value \in ConcCodes : GetBegin(p, value)
    \/ \E p \in Procs : Cancel(p)
    \/ \E p \in Procs, dbFails \in BOOLEAN : LoadFromCache(p, dbFails)
    \/ \E p \in Procs : \E http \in ProviderResponses(cepDigits[p]) : FetchFromViaCEP(p, http)
    \/ \E p \in Procs : SaveToCache(p)
    \/ \E p \in Procs, dbFails \in BOOLEAN : ExecContext(p, dbFails)
    \/ \E p \in Procs : Return(p)
    \/ Tick(MaxTimeConc)

SpecConc == InitConc /\ [][NextConc]_vars

\* ============================================================ properties
IsKey(k) == Len(k) = CepLen /\ \A i \in 1..Len(k) : k[i] \in Digits
DigitCount(value) == Cardinality({ i \in 1..Len(value) : value[i] \in Digits })
\* the record a JSON object carries, member by member
Carries(resp, json) ==
    /\ ~resp.nil
    /\ resp.Cep = json.cep
    /\ resp.Logradouro = json.logradouro
    /\ resp.Erro = (json.erro = "true")
Age(row) == clock - row.updated_at

\* C1: cache-hit short-circuit.  When a Get's store read completes without a
\* store failure while the table holds, for the call's key, a row that is an
\* object and is not stale (TTL > 0 and now - updated_at <= TTL), the Get
\* returns at once the record of that row, has made no provider call, makes
\* no store write, and the table is left as it was.
C1_CacheHitShortCircuit ==
    [][\A p \in Procs : \A row \in store :
          ( /\ pc[p] = "load" /\ pc'[p] # "load"
            /\ scan'[p].status # "err"
            /\ row.cep = cepDigits[p]
            /\ cacheTTL > 0 /\ Age(row) <= cacheTTL
            /\ row.payload.shape = "object" )
          => /\ pc'[p] = "done"
             /\ result'[p].err = NilErr
             /\ Carries(result'[p].resp, row.payload)
             /\ calls'[p] = 0 /\ writes'[p] = 0 /\ ~exec'[p].called
             /\ store' = store]_vars
\* a Get has returned a cached record under a positive TTL
C1_Witness ==
    \E p \in Procs :
        /\ pc[p] = "done" /\ cacheTTL > 0 /\ scan[p].status = "row"
        /\ result[p].err = NilErr /\ ~result[p].resp.nil
        /\ calls[p] = 0 /\ Len(rawCEP[p]) > CepLen

\* C2: cache-miss fetch and write-back.  A Get whose store read found no row
\* and whose provider call answered with a valid record has, when it returns,
\* returned that record, made exactly one provider call and issued exactly
\* one upsert, keyed by the normalized 8-digit key, carrying the returned
\* record, with updated_at the clock's time at the write.
ValidAnswer(http) ==
    /\ http.err = "nil" /\ http.status = StatusOK
    /\ http.body.shape = "object" /\ http.body.erro # "true"
C2_CacheMissWriteBack ==
    \A p \in Procs :
        (pc[p] = "done" /\ scan[p].status = "norows" /\ ValidAnswer(answer[p]))
        => /\ result[p].err = NilErr
           /\ ~result[p].resp.nil /\ ~result[p].resp.Erro
           /\ result[p].resp.Logradouro = answer[p].body.logradouro
           /\ result[p].resp.Cep # <<>>
           /\ answer[p].body.cep # <<>> => result[p].resp.Cep = answer[p].body.cep
           /\ calls[p] = 1 /\ writes[p] = 1
           /\ exec[p].called
           /\ IsKey(exec[p].cep) /\ exec[p].cep = cepDigits[p]
           /\ DigitCount(rawCEP[p]) = CepLen
           /\ exec[p].payload.shape = "object"
           /\ Carries(result[p].resp, exec[p].payload)
           /\ exec[p].updated_at = exec[p].at
C2_Witness ==
    \E p \in Procs :
        /\ pc[p] = "done" /\ scan[p].status = "norows" /\ ValidAnswer(answer[p])
        /\ exec[p].applied /\ exec[p].at > 0
        /\ \E row \in store : row.cep = cepDigits[p] /\ row.updated_at = exec[p].at

\* C3: a write failure is not fatal.  A Get whose upsert failed, for whatever
\* reason, returns the record it fetched and no error.
C3_WriteFailureNonFatal ==
    \A p \in Procs :
        (pc[p] = "done" /\ exec[p].called /\ ~exec[p].applied)
        => /\ result[p].err = NilErr
           /\ ~result[p].resp.nil
           /\ result[p].resp = fresh[p]
C3_Witness ==
    \E p \in Procs :
        /\ pc[p] = "done" /\ exec[p].called /\ ~exec[p].applied /\ ctx[p] = "live"
        /\ result[p].err = NilErr

\* C4: a broken cache is surfaced.  A Get whose store read failed with an
\* error other than no-rows fails with the query-cache error wrapping it and
\* makes no provider call and no store write; a read that found no row is a
\* miss, and the call goes on to exactly one provider call.
C4_BrokenCacheSurfaced ==
    \A p \in Procs :
        /\ scan[p].status = "err"
           => /\ pc[p] = "done"
              /\ result[p].err.kind = "queryCache" /\ result[p].err.cause = scan[p].err
              /\ result[p].resp.nil
              /\ calls[p] = 0 /\ writes[p] = 0 /\ ~exec[p].called
        /\ scan[p].status = "norows"
           => /\ pc[p] \in {"fetch", "save", "exec", "done"}
              /\ pc[p] = "fetch" => calls[p] = 0
              /\ pc[p] \in {"save", "exec", "done"} => calls[p] = 1
              /\ result[p].err.kind # "queryCache"
C4_Witness ==
    \E p \in Procs :
        /\ pc[p] = "done" /\ scan[p].status = "err" /\ scan[p].err = "db"
        /\ result[p].err.kind = "queryCache"

\* C5: TTL expiry forces a refetch.  Under a positive TTL a row that was read
\* is a miss exactly when its age at the read is strictly above the TTL; the
\* call then makes exactly one provider call, and a row of age at most the
\* TTL is returned without one.
C5_TTLExpiry ==
    \A p \in Procs :
        (cacheTTL > 0 /\ scan[p].status = "row")
        => LET age == scan[p].at - scan[p].updated_at
           IN  /\ age > cacheTTL
                  => /\ pc[p] \in {"fetch", "save", "exec", "done"}
                     /\ pc[p] = "fetch" => calls[p] = 0
                     /\ pc[p] \in {"save", "exec", "done"} => calls[p] = 1
                     /\ pc[p] = "done" /\ result[p].err = NilErr => result[p].resp = fresh[p]
               /\ age <= cacheTTL
                  => /\ pc[p] = "done" /\ calls[p] = 0 /\ writes[p] = 0
                     /\ scan[p].payload.shape = "object"
                        => /\ result[p].err = NilErr
                           /\ Carries(result[p].resp, scan[p].payload)
C5_Witness ==
    \E p \in Procs :
        /\ cacheTTL > 0 /\ scan[p].status = "row"
        /\ scan[p].at - scan[p].updated_at > cacheTTL
        /\ pc[p] = "done" /\ calls[p] = 1 /\ exec[p].applied

\* C6: TTL disabled.  With cacheTTL <= 0, a store read that completes without
\* a store failure while the table holds a row for the call's key ends the
\* Get there, whatever the row's updated_at and the clock: the row's record is
\* returned (when the payload is an object), no provider call is or will be
\* made by this Get, and the table is unchanged.
C6_TTLDisabled ==
    /\ [][\A p \in Procs : \A row \in store :
            ( /\ cacheTTL <= 0
              /\ pc[p] = "load" /\ pc'[p] # "load"
              /\ scan'[p].status # "err"
              /\ row.cep = cepDigits[p] )
            => /\ pc'[p] = "done"
               /\ calls'[p] = 0 /\ writes'[p] = 0
               /\ row.payload.shape = "object"
                  => /\ result'[p].err = NilErr
                     /\ Carries(result'[p].resp, row.payload)
               /\ store' = store]_vars
    /\ [](\A p \in Procs :
            (cacheTTL <= 0 /\ scan[p].status = "row")
            => pc[p] = "done" /\ calls[p] = 0 /\ answer[p] = NoHTTP)
\* with expiration disabled, a Get returned a row written by an earlier Get
\* and older than any positive TTL of the model
C6_Witness ==
    \E p \in Procs :
        /\ cacheTTL <= 0 /\ pc[p] = "done" /\ scan[p].status = "row"
        /\ scan[p].at - scan[p].updated_at >= 2 /\ scan[p].updated_at > 0
        /\ result[p].err = NilErr /\ calls[p] = 0

\* C7: soft not-found.  A Get whose provider call was answered with a success
\* status and a body whose erro member is true fails with ErrNotFound, having
\* made exactly one provider call and no store write.
C7_SoftNotFound ==
    \A p \in Procs :
        ( /\ answer[p].err = "nil" /\ answer[p].status < StatusErrorFloor
          /\ answer[p].body.shape = "object" /\ answer[p].body.erro = "true" )
        => /\ pc[p] = "done"
           /\ result[p].err = ErrNotFound /\ result[p].resp.nil
           /\ calls[p] = 1 /\ writes[p] = 0 /\ ~exec[p].called
C7_Witness ==
    \E p \in Procs :
        /\ pc[p] = "done" /\ answer[p].status = StatusOK /\ answer[p].body.erro = "true"
        /\ result[p].err = ErrNotFound /\ calls[p] = 1

\* C8: key shape.  Every key a Get passes to the store read, the provider or
\* the upsert, and every key in the table, is exactly 8 digits; a raw code
\* whose digit count is not 8 makes Get fail with ErrInvalidCEP without any
\* store read, provider call or store write.
C8_KeyShape ==
    /\ \A row \in store : IsKey(row.cep)
    /\ \A p \in Procs :
        /\ (pc[p] \in {"load", "fetch", "save", "exec"} \/ reads[p] > 0 \/ calls[p] > 0 \/ writes[p] > 0)
           => IsKey(cepDigits[p]) /\ DigitCount(rawCEP[p]) = CepLen
        /\ exec[p].called => IsKey(exec[p].cep)
        /\ (pc[p] \notin {"idle", "off"} /\ DigitCount(rawCEP[p]) # CepLen)
           => /\ pc[p] = "done"
              /\ result[p].err = ErrInvalidCEP /\ result[p].resp.nil
              /\ reads[p] = 0 /\ calls[p] = 0 /\ writes[p] = 0
              /\ scan[p] = NoScan /\ answer[p] = NoHTTP /\ exec[p] = NoExec
C8_Witness ==
    \E p \in Procs :
        /\ pc[p] = "done" /\ DigitCount(rawCEP[p]) > CepLen
        /\ result[p].err = ErrInvalidCEP /\ reads[p] = 0

\* C9 as claimed: whichever step the cancellation fired in, the Get fails with
\* a cancellation error.
C9_CancelAlwaysFails ==
    \A p \in Procs :
        (pc[p] = "done" /\ ctx[p] # "live")
        => result[p].err # NilErr /\ IsContextErr(result[p].err)
\* C9, amended: a cancellation that fires while the Get is in its store read
\* or its provider call makes Get fail with an error that wraps the context
\* error; one that fires while it is in its store write is swallowed with the
\* write's failure, and Get returns the fetched record.
C9_CancelHonoured ==
    \A p \in Procs :
        /\ (pc[p] = "done" /\ ctx[p] \in {"load", "fetch"})
           => /\ result[p].err # NilErr /\ IsContextErr(result[p].err)
              /\ result[p].resp.nil
              /\ writes[p] = 0
        /\ (pc[p] = "done" /\ ctx[p] = "save")
           => /\ result[p].err = NilErr /\ result[p].resp = fresh[p] /\ ~fresh[p].nil
              /\ exec[p].called /\ ~exec[p].applied
C9_Witness ==
    \E p \in Procs :
        /\ pc[p] = "done" /\ ctx[p] = "load"
        /\ result[p].err.kind = "queryCache" /\ IsContextErr(result[p].err)

\* two returned calls for one key that both read, and missed, before either
\* wrote, and that both issued their upsert
Raced(p, q) ==
    /\ p # q
    /\ pc[p] = "done" /\ pc[q] = "done"
    /\ cepDigits[p] = cepDigits[q]
    /\ raced[p] /\ raced[q]
    /\ exec[p].called /\ exec[q].called
RowsOf(k) == { row \in store : row.cep = k }

\* C10 as claimed: after such a race both calls have returned successfully
\* and the table holds exactly one row for the key, with the payload of the
\* upsert applied last.
C10_RaceLeavesOneEntry ==
    \A p, q \in Procs :
        Raced(p, q)
        => /\ result[p].err = NilErr /\ result[q].err = NilErr
           /\ calls[p] = 1 /\ calls[q] = 1
           /\ Cardinality(RowsOf(cepDigits[p])) = 1
           /\ \A row \in RowsOf(cepDigits[p]) : row.payload = lastExec[cepDigits[p]]
\* C10, amended: after such a race each call has made its own provider call
\* and its own upsert and has returned its own record; the table holds at
\* most one row for the key, and if at least one of the two upserts took
\* effect exactly one, with the payload of the upsert applied last.
C10_RaceNoCoalescing ==
    \A p, q \in Procs :
        Raced(p, q)
        => /\ result[p].err = NilErr /\ result[q].err = NilErr
           /\ result[p].resp = fresh[p] /\ result[q].resp = fresh[q]
           /\ calls[p] = 1 /\ calls[q] = 1
           /\ writes[p] = 1 /\ writes[q] = 1
           /\ Cardinality(RowsOf(cepDigits[p])) <= 1
           /\ (exec[p].applied \/ exec[q].applied)
              => /\ Cardinality(RowsOf(cepDigits[p])) = 1
                 /\ lastExec[cepDigits[p]] \in
                       { exec[o].payload : o \in { x \in {p, q} : exec[x].applied } }
                 /\ \A row \in RowsOf(cepDigits[p]) :
                       row.payload = lastExec[cepDigits[p]]
\* both upserts of a race took effect, with different payloads
C10_Witness ==
    \E p, q \in Procs :
        /\ Raced(p, q)
        /\ exec[p].applied /\ exec[q].applied
        /\ exec[p].payload # exec[q].payload
        /\ \E row \in RowsOf(cepDigits[p]) : row.payload = exec[q].payload

\* the entry a call read was stale under the configured TTL
ReadStale(p) ==
    scan[p].status = "row" /\ cacheTTL > 0 /\ scan[p].at - scan[p].updated_at > cacheTTL

\* C11: uniqueness and persistence of entries.  In every reachable state,
\* under any interleaving of Gets, the table holds at most one row per key,
\* and no step removes the row of a key: a key that has a row keeps one.
C11_UniqueAndPersistent ==
    /\ [](\A r1, r2 \in store : r1.cep = r2.cep => r1 = r2)
    /\ [][\A row \in store : \E kept \in store' : kept.cep = row.cep]_vars
\* a stale row was overwritten in place by a write-back
C11_Witness ==
    \E p \in Procs :
        /\ pc[p] = "done" /\ ReadStale(p) /\ exec[p].applied
        /\ Cardinality(RowsOf(cepDigits[p])) = 1
        /\ \E row \in RowsOf(cepDigits[p]) :
              row.updated_at > scan[p].updated_at /\ row.payload # scan[p].payload

\* C12: reads never mutate the cache.  The store-read step of a Get leaves the
\* table as it is, and the table changes only in the step in which the upsert
\* of a Get that missed (no row, or a stale one) and fetched a valid record
\* takes effect, and then only in the row of that Get's key; a Get that ended
\* as a hit has written nothing.
C12_ReadsNeverMutate ==
    /\ [][/\ \A p \in Procs : (pc[p] = "load" /\ pc'[p] # "load") => store' = store
          /\ store' # store
             => \E p \in Procs :
                   /\ pc[p] = "exec" /\ pc'[p] = "done" /\ exec'[p].applied
                   /\ scan[p].status = "norows" \/ ReadStale(p)
                   /\ calls[p] = 1 /\ ValidAnswer(answer[p])
                   /\ \A row \in store : row.cep # cepDigits[p] => row \in store'
                   /\ \A row \in store' : row.cep # cepDigits[p] => row \in store]_vars
    /\ [](\A p \in Procs :
            (pc[p] = "done" /\ scan[p].status = "row" /\ ~ReadStale(p))
            => writes[p] = 0 /\ ~exec[p].called)
\* a hit on a row that had aged, and the row still carries its old updated_at
C12_Witness ==
    \E p \in Procs :
        /\ pc[p] = "done" /\ scan[p].status = "row" /\ result[p].err = NilErr
        /\ calls[p] = 0 /\ scan[p].at > scan[p].updated_at
        /\ \E row \in store :
              /\ row.cep = cepDigits[p]
              /\ row.updated_at = scan[p].updated_at /\ row.payload = scan[p].payload

\* the digit characters of a string, in their order
RECURSIVE DigitsOf(_)
DigitsOf(value) ==
    IF value = <<>> THEN <<>>
    ELSE (IF Head(value) \in Digits THEN <<Head(value)>> ELSE <<>>) \o DigitsOf(Tail(value))

\* C13: normalization is idempotent.  For every raw code a Get was given: if
\* normalizeCEP succeeds on it, the result is the code's digit characters in
\* their order, exactly 8 of them, it is what Get uses as key, and normalizing
\* it again succeeds with the same string; if it fails, it fails with
\* ErrInvalidCEP and so does Get.
C13_NormalizeIdempotent ==
    \A p \in Procs :
        pc[p] \notin {"idle", "off"}
        => LET n == normalizeCEP(rawCEP[p])
           IN  /\ n.err = "nil"
                  => /\ n.digits = DigitsOf(rawCEP[p])
                     /\ IsKey(n.digits)
                     /\ cepDigits[p] = n.digits
                     /\ normalizeCEP(n.digits).err = "nil"
                     /\ normalizeCEP(n.digits).digits = n.digits
               /\ n.err # "nil"
                  => /\ n.err = "ErrInvalidCEP"
                     /\ pc[p] = "done" /\ result[p].err = ErrInvalidCEP
\* "12345-678" was normalized to "12345678"
C13_Witness ==
    \E p \in Procs :
        /\ pc[p] \notin {"idle", "off"}
        /\ rawCEP[p] = <<"1","2","3","4","5","-","6","7","8">>
        /\ cepDigits[p] = <<"1","2","3","4","5","6","7","8">>

\* C14 as claimed: a row whose payload does not deserialize makes Get fail
\* with the query-cache error and no provider call, whatever the row's age.
C14_BadPayloadAlwaysFails ==
    \A p \in Procs :
        (pc[p] = "done" /\ scan[p].status = "row" /\ scan[p].payload.shape # "object")
        => /\ result[p].err.kind = "queryCache"
           /\ calls[p] = 0
\* C14, amended: a row whose payload does not deserialize and which is not
\* stale (TTL <= 0, or age at most TTL) makes Get fail with the query-cache
\* error wrapping the unmarshal error, with no provider call and no write; a
\* stale such row is a miss like any stale row: its payload is never
\* unmarshalled and the Get goes on to the provider.
C14_BadPayload ==
    \A p \in Procs :
        (scan[p].status = "row" /\ scan[p].payload.shape # "object")
        => /\ ~ReadStale(p)
              => /\ pc[p] = "done"
                 /\ result[p].err = QueryCacheErr("json") /\ result[p].resp.nil
                 /\ calls[p] = 0 /\ writes[p] = 0
           /\ ReadStale(p)
              => /\ pc[p] \in {"fetch", "save", "exec", "done"}
                 /\ result[p].err.kind # "queryCache"
                 /\ pc[p] # "fetch" => calls[p] = 1
C14_Witness ==
    \E p \in Procs :
        /\ pc[p] = "done" /\ scan[p].status = "row" /\ scan[p].payload.shape # "object"
        /\ cacheTTL > 0 /\ scan[p].at - scan[p].updated_at = cacheTTL
        /\ result[p].err.kind = "queryCache" /\ result[p].err.cause = "json"

\* C15: updated_at is monotone per key.  Under a clock that never goes back,
\* no step replaces the row of a key by one with an earlier updated_at.
C15_UpdatedAtMonotone ==
    [][\A row \in store : \A next \in store' :
          next.cep = row.cep => next.updated_at >= row.updated_at]_vars

\* C16: provider error classification.  Once client.Do has answered a call:
\* a transport failure is returned as that very error; status 404 gives
\* ErrNotFound; any other status >= 400 gives the status error carrying the
\* status, whatever the body (a valid record included); and in all three
\* cases no record is returned and nothing is written.
C16_ProviderErrors ==
    \A p \in Procs :
        answer[p] # NoHTTP
        => /\ answer[p].err # "nil"
              => /\ result[p].err.kind = "transport"
                 /\ result[p].err.cause = answer[p].err
           /\ (answer[p].err = "nil" /\ answer[p].status = StatusNotFound)
              => result[p].err = ErrNotFound
           /\ ( /\ answer[p].err = "nil" /\ answer[p].status # StatusNotFound
                /\ answer[p].status >= StatusErrorFloor )
              => /\ result[p].err.kind = "status"
                 /\ result[p].err.status = answer[p].status
           /\ (answer[p].err # "nil" \/ answer[p].status >= StatusErrorFloor)
              => /\ pc[p] = "done"
                 /\ result[p].resp.nil /\ fresh[p].nil
                 /\ writes[p] = 0 /\ ~exec[p].called
\* an error status whose body is a valid record was answered with the status error
C16_Witness ==
    \E p \in Procs :
        /\ pc[p] = "done" /\ answer[p].err = "nil"
        /\ answer[p].status = StatusErrorFloor
        /\ answer[p].body.shape = "object" /\ answer[p].body.erro = "absent"
        /\ result[p].err.kind = "status" /\ result[p].err.status = StatusErrorFloor

\* C17: per-call step order, no retries.  A Get makes at most one store read,
\* one provider call and one store write, in that order: the read comes before
\* any provider call or write, the provider call only after a read that found
\* no row or a stale one, and the write only after a provider call that gave
\* a valid record.
C17_StepOrder ==
    /\ [](\A p \in Procs :
            /\ reads[p] <= 1 /\ calls[p] <= 1 /\ writes[p] <= 1
            /\ calls[p] = 1
               => reads[p] = 1 /\ (scan[p].status = "norows" \/ ReadStale(p))
            /\ writes[p] = 1
               => calls[p] = 1 /\ ValidAnswer(answer[p]) /\ ~fresh[p].nil)
    /\ [][\A p \in Procs :
            /\ reads'[p] > reads[p] => calls[p] = 0 /\ writes[p] = 0
            /\ calls'[p] > calls[p] => reads[p] = 1 /\ writes[p] = 0
            /\ writes'[p] > writes[p] => reads[p] = 1 /\ calls[p] = 1]_vars
\* a Get went through all three steps, after reading a stale row
C17_Witness ==
    \E p \in Procs :
        /\ pc[p] = "done" /\ reads[p] = 1 /\ calls[p] = 1 /\ writes[p] = 1
        /\ ReadStale(p) /\ exec[p].applied

\* the canonical form of a key: 5 digits, a hyphen, 3 digits
Hyphenated(k) == <<k[1], k[2], k[3], k[4], k[5], "-", k[6], k[7], k[8]>>

\* C18: code-field population.  After a provider answer that is a valid
\* record, the record Get holds, returns and writes to the cache carries as
\* cep the hyphenated key when the answer's cep was empty, and the answer's
\* cep unchanged otherwise.
C18_CodeField ==
    \A p \in Procs :
        (pc[p] \in {"save", "exec", "done"} /\ ValidAnswer(answer[p]))
        => LET want == IF answer[p].body.cep = <<>> THEN Hyphenated(cepDigits[p])
                       ELSE answer[p].body.cep
           IN  /\ fresh[p].Cep = want
               /\ pc[p] = "done" => result[p].err = NilErr /\ result[p].resp.Cep = want
               /\ pc[p] \in {"exec", "done"} => exec[p].called /\ exec[p].payload.cep = want
               /\ exec[p].applied
                  => \E row \in store : row.cep = cepDigits[p] /\ row.payload.cep = want
\* an answer without cep was returned and stored with the hyphenated key
C18_Witness ==
    \E p \in Procs :
        /\ pc[p] = "done" /\ ValidAnswer(answer[p]) /\ answer[p].body.cep = <<>>
        /\ exec[p].applied
        /\ result[p].resp.Cep = <<"7","6","5","4","3","-","2","1","0">>

\* C19: failed lookups leave the cache untouched.  A Get that returned an
\* error has issued no upsert and returns no record, and the table changes
\* only in the step in which a Get returns successfully; so a not-found answer
\* is never cached.
C19_FailedLookupNoWrite ==
    /\ [](\A p \in Procs :
            (pc[p] = "done" /\ result[p].err # NilErr)
            => /\ writes[p] = 0 /\ ~exec[p].called
               /\ result[p].resp.nil
               /\ result[p].err = ErrNotFound
                  => calls[p] = 1 /\ (scan[p].status = "norows" => RowsOf(cepDigits[p]) = {}))
    /\ [][store' # store
            => \E p \in Procs :
                  pc[p] = "exec" /\ pc'[p] = "done" /\ result'[p].err = NilErr]_vars
\* a not-found answer for a key without a row: the provider was asked and
\* the key still has no row
C19_Witness ==
    \E p \in Procs :
        /\ pc[p] = "done" /\ result[p].err = ErrNotFound
        /\ scan[p].status = "norows" /\ calls[p] = 1
        /\ RowsOf(cepDigits[p]) = {}

\* C20: read-after-write-back.  Once the upsert of a Get for key k has taken
\* effect, a later store read for k that completes without a store failure
\* while the row is not stale (TTL <= 0, or age at most TTL) ends its Get as a
\* hit: it returns a record equal to the one returned by the Get whose upsert
\* was applied last, and makes no provider call.
C20_ReadAfterWriteBack ==
    [][\A p \in Procs : \A row \in store :
          ( /\ pc[p] = "load" /\ pc'[p] # "load"
            /\ scan'[p].status # "err"
            /\ row.cep = cepDigits[p]
            /\ ~lastFresh[cepDigits[p]].nil
            /\ cacheTTL <= 0 \/ Age(row) <= cacheTTL )
          => /\ pc'[p] = "done"
             /\ result'[p].err = NilErr
             /\ result'[p].resp = lastFresh[cepDigits[p]]
             /\ calls'[p] = 0 /\ writes'[p] = 0]_vars
\* a Get given the hyphenated spelling was served the record an earlier Get
\* had fetched and written
C20_Witness ==
    \E p \in Procs :
        /\ pc[p] = "done" /\ scan[p].status = "row" /\ calls[p] = 0
        /\ Len(rawCEP[p]) > CepLen
        /\ ~lastFresh[cepDigits[p]].nil
        /\ result[p].err = NilErr /\ result[p].resp = lastFresh[cepDigits[p]]
        /\ result[p].resp.Logradouro = "Rua B"

\* C21: stored records are valid records.  When the table is empty at the
\* start, in every reachable state every row of the table holds a payload
\* that decodes to a record whose erro flag is false and whose cep field is
\* not empty (every such row was written by a Get).
ValidRecord(payload) ==
    LET d == Unmarshal(payload)
    IN  d.err = "nil" /\ ~d.resp.nil /\ ~d.resp.Erro /\ d.resp.Cep # <<>>
C21_StoredRecordsValid ==
    (store = {}) => [](\A row \in store : ValidRecord(row.payload))
\* the table, empty at the start (a seeded table has a row for each key),
\* holds one row, written by a Get whose provider answer had an empty cep
C21_Witness ==
    /\ Cardinality(store) = 1 /\ Cardinality(Keys) > 1
    /\ \E p \in Procs :
          /\ pc[p] = "done" /\ exec[p].applied /\ answer[p].body.cep = <<>>
          /\ \E row \in store : row.cep = cepDigits[p] /\ row.payload = exec[p].payload

\* C22: error-to-status mapping of the lookup endpoint.  Once Get has
\* returned to cepHandler, it has written exactly one status: 400 when Get
\* returned ErrInvalidCEP, 404 when it returned ErrNotFound, 500 when it
\* returned any other error (a failed store read, a provider status error, a
\* transport or decode error, a cancelled or timed-out context), and 200
\* when it returned a record; before that it has written none.
C22_StatusMapping ==
    \A p \in Procs :
        /\ pc[p] # "done" => written[p] = <<>>
        /\ pc[p] = "done" =>
              /\ Len(written[p]) = 1
              /\ result[p].err = ErrInvalidCEP => written[p][1] = 400
              /\ result[p].err = ErrNotFound => written[p][1] = 404
              /\ result[p].err \notin {NilErr, ErrInvalidCEP, ErrNotFound}
                    => written[p][1] = 500
              /\ result[p].err = NilErr
                    => written[p][1] = 200 /\ ~result[p].resp.nil
              /\ result[p].err.kind \in {"queryCache", "status", "transport", "decode"}
                    => written[p][1] = 500
\* a request whose context was cancelled during the provider call is answered 500
C22_Witness ==
    \E p \in Procs :
        /\ pc[p] = "done" /\ ctx[p] = "fetch" /\ IsContextErr(result[p].err)
        /\ result[p].err.kind = "transport"
        /\ written[p] = <<StatusInternalServerError>>
====
